---- MODULE Spec2Model ----
(***************************************************************************)
(* Model of app.py, the shared-household Streamlit application: the state  *)
(* document kept in st.session_state.data, the session's shopping cart and *)
(* pending furniture purchase, the sidebar's section and cat-mode toggle,  *)
(* and the handlers of the forms and buttons of each section.  One action  *)
(* is one user interaction together with the whole handler it triggers,    *)
(* the run of the script that st.rerun() or the interaction itself starts  *)
(* included: the "Agregar item" text input keeps its text from run to run  *)
(* while it is drawn, and every run of the planning page executes the add  *)
(* block with that text.  A second session over the same sheet is kept as  *)
(* its document alone (peer_data).                                         *)
(*                                                                         *)
(* Abstractions: the display-only fields of a bill (date, description) are *)
(* left out; amounts are integers (the number inputs are integer-typed)    *)
(* and balances are kept exactly, in units of 1/Scale, so that the even    *)
(* split amount / len(debtors) is an integer for 1..3 debtors: floating    *)
(* point rounding is outside the model.                                    *)
(***************************************************************************)
EXTENDS Integers, Sequences, FiniteSets, TLC

\* ------------------------------------------------------------ configuration
ROOMIES == {"Ale", "Ferb", "Fandi"}
CATS_PARENTS == {"Ale", "Fandi"}

\* the entries of the sidebar radio
Sections == {"Resumen", "Responsabilidades", "Cuentas (Bills)", "Lista de Compras", "Muebles"}

\* ------------------------------------------------------------ bounds and input sets
MaxBills == 1
MaxFurniture == 2
MaxItems == 2
MaxLedgerBills == 2

ItemNames == {"milk", "bread"}
Prices == {0, 50}
BillAmounts == {0, 300}
ManualCategories == {"Comida", "Pago Deuda"}
FurnitureNames == {"sofa"}
Estimates == {0, 5000}
FinalPrices == {4500}
LedgerAmounts == {-60, 0, 100, 300}

\* balances are counted in units of 1/Scale: every len(debtors) in 1..3 divides it
Scale == Cardinality(ROOMIES) * Cardinality(CATS_PARENTS)

VARIABLES
    data,            \* st.session_state.data: the document {tasks, bills, shopping, furniture}
    stored,          \* the JSON document in cell A1 of the sheet
    shopping_cart,   \* st.session_state.shopping_cart: item name -> price
    temp_furn_buy,   \* {} when the key is absent, {i} when it refers to data.furniture[i]
    mode,            \* the section chosen in the sidebar
    is_cat_mode,     \* the sidebar checkbox
    shopping_mode,   \* the toggle of the shopping section
    new_item,        \* the text the "Agregar item" input holds, "" when empty or not drawn
    peer_data,       \* st.session_state.data of a second session over the same sheet
    last,            \* the interaction handled by the last step, with its inputs
    bills_list,      \* ledger: the argument of calculate_debts
    ledger_users,    \* ledger: current_users while calculate_debts runs
    balances,        \* ledger: calculate_debts(bills_list)
    prev_balances    \* ledger: the balances before the last bill was appended

appVars == <<data, stored, shopping_cart, temp_furn_buy, mode, is_cat_mode, shopping_mode,
            new_item, last>>
ledgerVars == <<bills_list, ledger_users, balances, prev_balances>>
otherVars == <<peer_data, bills_list, ledger_users, balances, prev_balances>>
vars == <<data, stored, shopping_cart, temp_furn_buy, mode, is_cat_mode, shopping_mode,
          new_item, last, peer_data, bills_list, ledger_users, balances, prev_balances>>

\* ------------------------------------------------------------ helpers
EmptyDocument == [tasks |-> <<>>, bills |-> <<>>, shopping |-> <<>>, furniture |-> <<>>]

EmptyCart == [n \in {} |-> 0]

NoOp == [op |-> "start", idx |-> 0, name |-> "", names |-> {}, amount |-> 0,
         payer |-> "", debtors |-> {}, saved |-> TRUE]

RECURSIVE SumOver(_, _)
SumOver(f, S) ==
    IF S = {} THEN 0
    ELSE LET x == CHOOSE y \in S : TRUE IN f[x] + SumOver(f, S \ {x})

\* ------------------------------------------------------------ context
\* mutant: the participants are the roomies in either context
current_users_AllRoomies == ROOMIES

current_users == IF is_cat_mode THEN CATS_PARENTS ELSE ROOMIES

context_id == IF is_cat_mode THEN "cat" ELSE "house"

\* the participants of a context
GroupOf(ctx) == IF ctx = "cat" THEN CATS_PARENTS ELSE ROOMIES

\* mutant: the collection is returned whole, entities of the other context included
get_context_data_NoFilter(key) == data[key]

get_context_data(key) == SelectSeq(data[key], LAMBDA x : x.context = context_id)

\* positions in data[key] of the entities get_context_data(key) returns
ContextIndices(key) == {i \in 1..Len(data[key]) : data[key][i].context = context_id}

\* ------------------------------------------------------------ debt calculation
\* mutant: the debtor is debited but the payer is never credited
RECURSIVE SplitAmong_NoCredit(_, _, _, _)
SplitAmong_NoCredit(bal, payer, debtors, split_amount) ==
    IF debtors = {} THEN bal
    ELSE LET d == CHOOSE x \in debtors : TRUE
             b1 == IF d # payer THEN [bal EXCEPT ![d] = @ - split_amount] ELSE bal
         IN SplitAmong_NoCredit(b1, payer, debtors \ {d}, split_amount)

\* mutant: the payer is credited for its own share too (the test d != payer guards
\* only the debit)
RECURSIVE SplitAmong_SelfCredit(_, _, _, _)
SplitAmong_SelfCredit(bal, payer, debtors, split_amount) ==
    IF debtors = {} THEN bal
    ELSE LET d == CHOOSE x \in debtors : TRUE
             b0 == IF d # payer THEN [bal EXCEPT ![d] = @ - split_amount] ELSE bal
             b1 == [b0 EXCEPT ![payer] = @ + split_amount]
         IN SplitAmong_SelfCredit(b1, payer, debtors \ {d}, split_amount)

\* mutant: the transfer runs the wrong way, the debtor is credited and the payer debited
RECURSIVE SplitAmong_Swapped(_, _, _, _)
SplitAmong_Swapped(bal, payer, debtors, split_amount) ==
    IF debtors = {} THEN bal
    ELSE LET d == CHOOSE x \in debtors : TRUE
             b1 == IF d # payer
                   THEN [[bal EXCEPT ![d] = @ + split_amount] EXCEPT ![payer] = @ - split_amount]
                   ELSE bal
         IN SplitAmong_Swapped(b1, payer, debtors \ {d}, split_amount)

\* the inner loop of calculate_debts over the debtors of one bill
RECURSIVE SplitAmong(_, _, _, _)
SplitAmong(bal, payer, debtors, split_amount) ==
    IF debtors = {} THEN bal
    ELSE LET d == CHOOSE x \in debtors : TRUE
             b1 == IF d # payer
                   THEN [[bal EXCEPT ![d] = @ - split_amount] EXCEPT ![payer] = @ + split_amount]
                   ELSE bal
         IN SplitAmong(b1, payer, debtors \ {d}, split_amount)

\* mutant: the amount is not divided by the number of debtors
ApplyBill_NoSplit(bal, bill) ==
    IF bill.debtors = {} THEN bal
    ELSE SplitAmong(bal, bill.payer, bill.debtors, bill.amount * Scale)

\* one iteration of the loop over bills_list
ApplyBill(bal, bill) ==
    IF bill.debtors = {} THEN bal
    ELSE SplitAmong(bal, bill.payer, bill.debtors,
                    (bill.amount * Scale) \div Cardinality(bill.debtors))

RECURSIVE DebtsFrom(_, _, _)
DebtsFrom(bal, bills, k) ==
    IF k > Len(bills) THEN bal
    ELSE DebtsFrom(ApplyBill(bal, bills[k]), bills, k + 1)

calculate_debts(bills, users) == DebtsFrom([u \in users |-> 0], bills, 1)

\* ------------------------------------------------------------ persistence
\* save_data: the update of cell A1 succeeds (ok), or it raises, the exception is caught
\* and only an error message is shown
\* mutant: a save keeps the bills the sheet holds and adds those of the document to them
save_data_Merging(doc, ok) ==
    stored' = IF ok
              THEN [doc EXCEPT !.bills =
                       stored.bills \o
                       SelectSeq(doc.bills,
                                 LAMBDA b : \A i \in 1..Len(stored.bills) : stored.bills[i] # b)]
              ELSE stored

\* mutant: a save that fails leaves the sheet's cell empty
save_data_ClearsOnFailure(doc, ok) == stored' = IF ok THEN doc ELSE EmptyDocument

save_data(doc, ok) == stored' = IF ok THEN doc ELSE stored

\* the outcomes of save_data the sessions below are run with: the sheet is reachable
SaveOutcomes == {TRUE}

\* ------------------------------------------------------------ initial state
LedgerIdle ==
    /\ bills_list = <<>>
    /\ ledger_users = ROOMIES
    /\ balances = [u \in ROOMIES |-> 0]
    /\ prev_balances = [u \in ROOMIES |-> 0]

AppIdle ==
    /\ data = EmptyDocument
    /\ stored = EmptyDocument
    /\ shopping_cart = EmptyCart
    /\ temp_furn_buy = {}
    /\ mode = "Resumen"
    /\ is_cat_mode = FALSE
    /\ shopping_mode = FALSE
    /\ new_item = ""
    /\ peer_data = EmptyDocument
    /\ last = NoOp

Init == AppIdle /\ LedgerIdle

\* ------------------------------------------------------------ the add block of the planning page
\* mutant: the test for an item of that name is left out
NameTaken_Never(shopping, ctx, text) == FALSE

\* any(i['name'] == new_item for i in all_items), all_items being the items of ctx
NameTaken(shopping, ctx, text) ==
    \E i \in 1..Len(shopping) : shopping[i].context = ctx /\ shopping[i].name = text

\* "if new_item: if not any(...): append(...)": every run of the planning page executes
\* it with the text the input holds, the run a handler's st.rerun() starts included
AddBlock(shopping, ctx, text) ==
    IF text # "" /\ ~NameTaken(shopping, ctx, text)
    THEN Append(shopping, [name |-> text, status |-> "buy", context |-> ctx])
    ELSE shopping

\* ------------------------------------------------------------ sidebar
\* another section is chosen; the shopping-mode toggle is a widget of the shopping
\* section and is drawn with its default, off, when the section is entered
Navigate(m) ==
    /\ m # mode
    /\ mode' = m
    /\ shopping_mode' = FALSE
    /\ new_item' = ""
    /\ last' = [NoOp EXCEPT !.op = "navigate", !.name = m]
    /\ UNCHANGED <<data, stored, shopping_cart, temp_furn_buy, is_cat_mode>>
    /\ UNCHANGED otherVars

\* the checkbox is switched and the script runs again under the other context; in
\* the planning page that run executes the add block with the text the input holds
ToggleCatMode(ok) ==
    LET ctx == IF is_cat_mode THEN "house" ELSE "cat"
        shopping == IF mode = "Lista de Compras" /\ ~shopping_mode
                    THEN AddBlock(data.shopping, ctx, new_item)
                    ELSE data.shopping
    IN /\ Len(shopping) <= MaxItems
       /\ is_cat_mode' = ~is_cat_mode
       /\ data' = [data EXCEPT !.shopping = shopping]
       /\ IF shopping # data.shopping THEN save_data(data', ok) ELSE UNCHANGED stored
       /\ last' = [NoOp EXCEPT !.op = "toggle_cat_mode",
                               !.saved = (shopping = data.shopping \/ ok)]
       /\ UNCHANGED <<shopping_cart, temp_furn_buy, mode, shopping_mode>>
       /\ UNCHANGED <<new_item, otherVars>>

\* ------------------------------------------------------------ bills section
AddBill(b_amount, b_cat, b_payer, b_debtors, ok) ==
    /\ mode = "Cuentas (Bills)"
    /\ Len(data.bills) < MaxBills
    /\ data' = [data EXCEPT !.bills = Append(@,
                   [amount |-> b_amount, category |-> b_cat, payer |-> b_payer,
                    debtors |-> b_debtors, context |-> context_id])]
    /\ save_data(data', ok)
    /\ last' = [NoOp EXCEPT !.saved = ok, !.op = "add_bill", !.amount = b_amount,
                            !.name = b_cat, !.payer = b_payer, !.debtors = b_debtors]
    /\ UNCHANGED <<shopping_cart, temp_furn_buy, mode, is_cat_mode, shopping_mode>>
    /\ UNCHANGED <<new_item, otherVars>>

\* ------------------------------------------------------------ shopping section
all_items == ContextIndices("shopping")

to_buy == {i \in all_items : data.shopping[i].status = "buy"}

have == {i \in all_items : data.shopping[i].status = "have"}

\* mutant: the entries are counted instead of their prices being added
cart_total_Count == Cardinality(DOMAIN shopping_cart)

cart_total == SumOver(shopping_cart, DOMAIN shopping_cart)

\* mutant: the checkout form is offered for a total of 0 too
CheckoutOffered_ZeroTotal == cart_total >= 0

\* "if cart_total > 0:" around the checkout form
CheckoutOffered == cart_total > 0

cart_items == DOMAIN shopping_cart

\* mutant: the first element with x's name is removed, whatever its context
ListRemove_ByName(s, x) ==
    LET k == CHOOSE j \in 1..Len(s) : s[j].name = x.name /\ \A h \in 1..(j - 1) : s[h].name # x.name
    IN [j \in 1..(Len(s) - 1) |-> IF j < k THEN s[j] ELSE s[j + 1]]

\* list.remove(x): the list without its first element equal to x
ListRemove(s, x) ==
    LET k == CHOOSE j \in 1..Len(s) : s[j] = x /\ \A h \in 1..(j - 1) : s[h] # x
    IN [j \in 1..(Len(s) - 1) |-> IF j < k THEN s[j] ELSE s[j + 1]]

\* mutant: the items are matched on their name alone
UpdateInventory_ByName(shopping, names, ctx) ==
    [i \in 1..Len(shopping) |->
        IF shopping[i].name \in names
        THEN [shopping[i] EXCEPT !.status = "have"]
        ELSE shopping[i]]

\* the inventory update of the checkout: every cart name, every document item
UpdateInventory(shopping, names, ctx) ==
    [i \in 1..Len(shopping) |->
        IF shopping[i].name \in names /\ shopping[i].context = ctx
        THEN [shopping[i] EXCEPT !.status = "have"]
        ELSE shopping[i]]

\* mutant: leaving or entering the shopping mode starts a new cart
ToggleShoppingMode_ClearsCart ==
    /\ mode = "Lista de Compras"
    /\ shopping_mode' = ~shopping_mode
    /\ shopping_cart' = EmptyCart
    /\ new_item' = ""
    /\ last' = [NoOp EXCEPT !.op = "toggle_shopping_mode"]
    /\ UNCHANGED <<data, stored, temp_furn_buy, mode, is_cat_mode>>
    /\ UNCHANGED otherVars

\* the text input is drawn in planning mode only: in shopping mode it is gone, and
\* back in planning mode it is drawn anew, empty
ToggleShoppingMode ==
    /\ mode = "Lista de Compras"
    /\ shopping_mode' = ~shopping_mode
    /\ new_item' = ""
    /\ last' = [NoOp EXCEPT !.op = "toggle_shopping_mode"]
    /\ UNCHANGED <<data, stored, shopping_cart, temp_furn_buy, mode, is_cat_mode>>
    /\ UNCHANGED otherVars

\* a text is entered in the input (or the input is cleared) and the script runs
AddItem(text, ok) ==
    LET shopping == AddBlock(data.shopping, context_id, text)
    IN /\ mode = "Lista de Compras"
       /\ ~shopping_mode
       /\ text # new_item
       /\ Len(shopping) <= MaxItems
       /\ new_item' = text
       /\ data' = [data EXCEPT !.shopping = shopping]
       /\ IF shopping # data.shopping THEN save_data(data', ok) ELSE UNCHANGED stored
       /\ last' = [NoOp EXCEPT !.op = "add_item", !.name = text,
                               !.saved = (shopping = data.shopping \/ ok)]
       /\ UNCHANGED <<shopping_cart, temp_furn_buy, mode, is_cat_mode, shopping_mode>>
       /\ UNCHANGED otherVars

MarkHave(i, ok) ==
    /\ mode = "Lista de Compras"
    /\ ~shopping_mode
    /\ i \in to_buy
    /\ data' = [data EXCEPT !.shopping[i].status = "have"]
    /\ save_data(data', ok)
    /\ last' = [NoOp EXCEPT !.saved = ok, !.op = "mark_have", !.idx = i,
                            !.name = data.shopping[i].name]
    /\ UNCHANGED <<shopping_cart, temp_furn_buy, mode, is_cat_mode, shopping_mode>>
    /\ UNCHANGED <<new_item, otherVars>>

\* the item is removed and saved; st.rerun() then runs the planning page again, add
\* block included
RemoveItem(i, ok) ==
    /\ mode = "Lista de Compras"
    /\ ~shopping_mode
    /\ i \in to_buy
    /\ data' = [data EXCEPT !.shopping =
                   AddBlock(ListRemove(@, data.shopping[i]), context_id, new_item)]
    /\ save_data(data', ok)
    /\ last' = [NoOp EXCEPT !.saved = ok, !.op = "remove_item", !.idx = i,
                            !.name = data.shopping[i].name]
    /\ UNCHANGED <<shopping_cart, temp_furn_buy, mode, is_cat_mode, shopping_mode>>
    /\ UNCHANGED <<new_item, otherVars>>

MarkBuy(i, ok) ==
    /\ mode = "Lista de Compras"
    /\ ~shopping_mode
    /\ i \in have
    /\ data' = [data EXCEPT !.shopping[i].status = "buy"]
    /\ save_data(data', ok)
    /\ last' = [NoOp EXCEPT !.saved = ok, !.op = "mark_buy", !.idx = i,
                            !.name = data.shopping[i].name]
    /\ UNCHANGED <<shopping_cart, temp_furn_buy, mode, is_cat_mode, shopping_mode>>
    /\ UNCHANGED <<new_item, otherVars>>

AddToCart(i) ==
    /\ mode = "Lista de Compras"
    /\ shopping_mode
    /\ i \in to_buy
    /\ data.shopping[i].name \notin DOMAIN shopping_cart
    /\ shopping_cart' = [n \in DOMAIN shopping_cart \cup {data.shopping[i].name} |->
                            IF n = data.shopping[i].name THEN 0 ELSE shopping_cart[n]]
    /\ last' = [NoOp EXCEPT !.op = "add_to_cart", !.idx = i, !.name = data.shopping[i].name]
    /\ UNCHANGED <<data, stored, temp_furn_buy, mode, is_cat_mode, shopping_mode>>
    /\ UNCHANGED <<new_item, otherVars>>

EditPrice(i, price) ==
    /\ mode = "Lista de Compras"
    /\ shopping_mode
    /\ i \in to_buy
    /\ data.shopping[i].name \in DOMAIN shopping_cart
    /\ shopping_cart' = [shopping_cart EXCEPT ![data.shopping[i].name] = price]
    /\ last' = [NoOp EXCEPT !.op = "edit_price", !.idx = i, !.name = data.shopping[i].name,
                            !.amount = price]
    /\ UNCHANGED <<data, stored, temp_furn_buy, mode, is_cat_mode, shopping_mode>>
    /\ UNCHANGED <<new_item, otherVars>>

RemoveFromCart(i) ==
    /\ mode = "Lista de Compras"
    /\ shopping_mode
    /\ i \in to_buy
    /\ data.shopping[i].name \in DOMAIN shopping_cart
    /\ shopping_cart' = [n \in DOMAIN shopping_cart \ {data.shopping[i].name} |-> shopping_cart[n]]
    /\ last' = [NoOp EXCEPT !.op = "remove_from_cart", !.idx = i, !.name = data.shopping[i].name]
    /\ UNCHANGED <<data, stored, temp_furn_buy, mode, is_cat_mode, shopping_mode>>
    /\ UNCHANGED <<new_item, otherVars>>

Checkout(c_payer, c_debtors, ok) ==
    /\ mode = "Lista de Compras"
    /\ shopping_mode
    /\ CheckoutOffered
    /\ Len(data.bills) < MaxBills
    /\ data' = [data EXCEPT
                   !.bills = Append(@,
                       [amount |-> cart_total, category |-> "Supermercado", payer |-> c_payer,
                        debtors |-> c_debtors, context |-> context_id]),
                   !.shopping = UpdateInventory(@, cart_items, context_id)]
    /\ shopping_cart' = EmptyCart
    /\ save_data(data', ok)
    /\ last' = [NoOp EXCEPT !.saved = ok, !.op = "checkout", !.names = cart_items,
                            !.amount = cart_total, !.payer = c_payer, !.debtors = c_debtors]
    /\ UNCHANGED <<temp_furn_buy, mode, is_cat_mode, shopping_mode>>
    /\ UNCHANGED <<new_item, otherVars>>

\* ------------------------------------------------------------ furniture section
wishes == {i \in ContextIndices("furniture") : data.furniture[i].status = "wish"}

\* the loop "for db_item in data['furniture']: if db_item == item: ..." from position k
\* on; item is the list element furniture[p] itself, so it changes with it
RECURSIVE MarkBought(_, _, _)
MarkBought(furniture, p, k) ==
    IF k > Len(furniture) THEN furniture
    ELSE MarkBought(IF furniture[k] = furniture[p]
                    THEN [furniture EXCEPT ![k].status = "bought"]
                    ELSE furniture,
                    p, k + 1)

AddFurniture(f_name, f_est, ok) ==
    /\ mode = "Muebles"
    /\ Len(data.furniture) < MaxFurniture
    /\ data' = [data EXCEPT !.furniture = Append(@,
                   [name |-> f_name, estimate |-> f_est, date |-> "Sin fecha",
                    status |-> "wish", context |-> context_id])]
    /\ save_data(data', ok)
    /\ last' = [NoOp EXCEPT !.saved = ok, !.op = "add_furniture", !.name = f_name, !.amount = f_est]
    /\ UNCHANGED <<shopping_cart, temp_furn_buy, mode, is_cat_mode, shopping_mode>>
    /\ UNCHANGED <<new_item, otherVars>>

BeginPurchase(i) ==
    /\ mode = "Muebles"
    /\ i \in wishes
    /\ temp_furn_buy' = {i}
    /\ last' = [NoOp EXCEPT !.op = "begin_purchase", !.idx = i, !.name = data.furniture[i].name]
    /\ UNCHANGED <<data, stored, shopping_cart, mode, is_cat_mode, shopping_mode>>
    /\ UNCHANGED <<new_item, otherVars>>

ConfirmPurchase(p, real_price, p_payer, p_debtors, ok) ==
    /\ mode = "Muebles"
    /\ p \in temp_furn_buy
    /\ Len(data.bills) < MaxBills
    /\ data' = [data EXCEPT
                   !.bills = Append(@,
                       [amount |-> real_price, category |-> "Muebles", payer |-> p_payer,
                        debtors |-> p_debtors, context |-> context_id]),
                   !.furniture = MarkBought(@, p, 1)]
    /\ temp_furn_buy' = {}
    /\ save_data(data', ok)
    /\ last' = [NoOp EXCEPT !.saved = ok, !.op = "confirm_purchase", !.idx = p,
                            !.name = data.furniture[p].name, !.amount = real_price,
                            !.payer = p_payer, !.debtors = p_debtors]
    /\ UNCHANGED <<shopping_cart, mode, is_cat_mode, shopping_mode>>
    /\ UNCHANGED <<new_item, otherVars>>

\* ------------------------------------------------------------ the session
\* the choices a multiselect over the current users is exercised with
DebtorChoices == {{}, {"Ale"}, current_users}

BillsNext ==
    \E a \in BillAmounts, c \in ManualCategories, p \in current_users,
       ds \in DebtorChoices, ok \in SaveOutcomes : AddBill(a, c, p, ds, ok)

ShoppingNext ==
    \/ ToggleShoppingMode
    \/ \E text \in ItemNames \cup {""}, ok \in SaveOutcomes : AddItem(text, ok)
    \/ \E i \in 1..Len(data.shopping), ok \in SaveOutcomes : MarkHave(i, ok)
    \/ \E i \in 1..Len(data.shopping), ok \in SaveOutcomes : RemoveItem(i, ok)
    \/ \E i \in 1..Len(data.shopping), ok \in SaveOutcomes : MarkBuy(i, ok)
    \/ \E i \in 1..Len(data.shopping) : AddToCart(i)
    \/ \E i \in 1..Len(data.shopping), price \in Prices : EditPrice(i, price)
    \/ \E i \in 1..Len(data.shopping) : RemoveFromCart(i)
    \/ \E p \in current_users, ds \in DebtorChoices, ok \in SaveOutcomes : Checkout(p, ds, ok)

FurnitureNext ==
    \/ \E n \in FurnitureNames, e \in Estimates, ok \in SaveOutcomes : AddFurniture(n, e, ok)
    \/ \E i \in 1..Len(data.furniture) : BeginPurchase(i)
    \/ \E i \in temp_furn_buy :
          \E price \in FinalPrices \cup {data.furniture[i].estimate}, p \in current_users,
             ds \in DebtorChoices, ok \in SaveOutcomes : ConfirmPurchase(i, price, p, ds, ok)

\* a whole session: every section
Next ==
    \/ \E m \in Sections : Navigate(m)
    \/ \E ok \in SaveOutcomes : ToggleCatMode(ok)
    \/ BillsNext
    \/ ShoppingNext
    \/ FurnitureNext

Spec == Init /\ [][Next]_vars

\* a session that visits the shopping section and the dashboard
ShoppingSessionNext ==
    \/ \E m \in {"Resumen", "Lista de Compras"} : Navigate(m)
    \/ \E ok \in SaveOutcomes : ToggleCatMode(ok)
    \/ ShoppingNext

SpecShopping == Init /\ [][ShoppingSessionNext]_vars

\* a session that visits the furniture section and the dashboard
FurnitureSessionNext ==
    \/ \E m \in {"Resumen", "Muebles"} : Navigate(m)
    \/ \E ok \in SaveOutcomes : ToggleCatMode(ok)
    \/ FurnitureNext

SpecFurniture == Init /\ [][FurnitureSessionNext]_vars

\* a session through the three sections that create bills, every handler on the way
\* to a bill exercised with one input of each kind and with saves that work or fail
AllSectionsNext ==
    \/ \E m \in {"Cuentas (Bills)", "Lista de Compras", "Muebles"} : Navigate(m)
    \/ \E ok \in BOOLEAN : ToggleCatMode(ok)
    \/ \E a \in BillAmounts \ {0}, p \in current_users, ds \in {{}, current_users},
          ok \in BOOLEAN : AddBill(a, "Comida", p, ds, ok)
    \/ ToggleShoppingMode
    \/ \E text \in {"milk", ""}, ok \in BOOLEAN : AddItem(text, ok)
    \/ \E i \in 1..Len(data.shopping) : AddToCart(i)
    \/ \E i \in 1..Len(data.shopping), price \in Prices \ {0} : EditPrice(i, price)
    \/ \E p \in current_users, ds \in {{}, current_users}, ok \in BOOLEAN :
          Checkout(p, ds, ok)
    \/ \E n \in FurnitureNames, e \in Estimates \ {0}, ok \in BOOLEAN : AddFurniture(n, e, ok)
    \/ \E i \in 1..Len(data.furniture) : BeginPurchase(i)
    \/ \E i \in temp_furn_buy, p \in current_users, ds \in {{}, current_users},
          ok \in BOOLEAN : ConfirmPurchase(i, data.furniture[i].estimate, p, ds, ok)

SpecAllSections == Init /\ [][AllSectionsNext]_vars

\* ------------------------------------------------------------ two sessions over one sheet
\* a second session is opened: 'data' not in st.session_state, so it loads the sheet
PeerLoad ==
    /\ peer_data # stored
    /\ peer_data' = stored
    /\ UNCHANGED <<appVars, ledgerVars>>

\* the second session submits its add_bill form: it appends the bill to its own
\* document and saves that document
PeerAddBill(b_amount, b_cat, b_payer, b_debtors, ctx) ==
    /\ Len(peer_data.bills) < MaxBills
    /\ peer_data' = [peer_data EXCEPT !.bills = Append(@,
                        [amount |-> b_amount, category |-> b_cat, payer |-> b_payer,
                         debtors |-> b_debtors, context |-> ctx])]
    /\ save_data(peer_data', TRUE)
    /\ UNCHANGED <<data, shopping_cart, temp_furn_buy, mode, is_cat_mode, shopping_mode,
                   new_item, last>>
    /\ UNCHANGED ledgerVars

\* this session in the bills section, and a second session over the same sheet
TwoSessionsNext ==
    \/ \E m \in {"Resumen", "Cuentas (Bills)"} : Navigate(m)
    \/ \E ok \in SaveOutcomes : ToggleCatMode(ok)
    \/ \E a \in BillAmounts \ {0}, p \in current_users, ok \in SaveOutcomes :
          AddBill(a, "Comida", p, current_users, ok)
    \/ PeerLoad
    \/ \E a \in BillAmounts \ {0}, ctx \in {"house", "cat"} :
          \E p \in GroupOf(ctx) : PeerAddBill(a, "Comida", p, GroupOf(ctx), ctx)

SpecTwoSessions == Init /\ [][TwoSessionsNext]_vars

\* ------------------------------------------------------------ the ledger alone
\* calculate_debts applied to bill lists over the participants of either context
LedgerBills(users) ==
    [amount : LedgerAmounts, category : {"Comida"}, payer : users,
     debtors : SUBSET users, context : {IF users = CATS_PARENTS THEN "cat" ELSE "house"}]

LedgerInit ==
    /\ AppIdle
    /\ bills_list = <<>>
    /\ ledger_users \in {ROOMIES, CATS_PARENTS}
    /\ balances = [u \in ledger_users |-> 0]
    /\ prev_balances = balances

LedgerAddBill(bill) ==
    /\ Len(bills_list) < MaxLedgerBills
    /\ bills_list' = Append(bills_list, bill)
    /\ prev_balances' = balances
    /\ balances' = calculate_debts(bills_list', ledger_users)
    /\ UNCHANGED ledger_users
    /\ UNCHANGED <<appVars, peer_data>>

LedgerNext == \E bill \in LedgerBills(ledger_users) : LedgerAddBill(bill)

SpecLedger == LedgerInit /\ [][LedgerNext]_vars

\* ------------------------------------------------------------ properties of the ledger
LastBill == bills_list[Len(bills_list)]

\* C3: the balances calculate_debts returns sum to exactly 0, for every bill list
\* whose payers and debtors are participants
C3_BalancesSumToZero == SumOver(balances, DOMAIN balances) = 0

\* C3 witness: a bill with a real transfer has been applied (somebody owes, somebody is owed)
C3_Witness ==
    /\ bills_list # <<>>
    /\ \E u \in ledger_users : balances[u] < 0
    /\ \E u \in ledger_users : balances[u] > 0

\* C10: appending a bill whose debtor set is exactly {payer} leaves every balance as
\* it was, whatever the amount
C10_SelfBillIsNoOp ==
    (bills_list # <<>> /\ LastBill.debtors = {LastBill.payer}) => balances = prev_balances

\* C10 witness: a self-only bill with a positive amount was appended to a list that
\* already produced non-zero balances
C10_Witness ==
    /\ Len(bills_list) > 1
    /\ LastBill.debtors = {LastBill.payer}
    /\ LastBill.amount > 0
    /\ \E u \in ledger_users : balances[u] # 0

\* C11: a bill of amount a with n debtors moves a/n from every debtor other than the
\* payer to the payer and leaves every other participant's balance as it was (300
\* among 3 debtors with a payer among them: +200 for the payer, -100 for the others)
C11_ShareMovesToPayer ==
    bills_list # <<>> =>
        LET n == Cardinality(LastBill.debtors)
            owing == LastBill.debtors \ {LastBill.payer}
        IN \A u \in ledger_users :
              n * (balances[u] - prev_balances[u]) =
                  IF u = LastBill.payer THEN Cardinality(owing) * LastBill.amount * Scale
                  ELSE IF u \in owing THEN 0 - LastBill.amount * Scale
                  ELSE 0

\* C11 witness: 300 was split among the three roomies, one of them the payer, who
\* gained 200 while the other two lost 100 each
C11_Witness ==
    /\ bills_list # <<>>
    /\ LastBill.amount = 300
    /\ LastBill.debtors = ROOMIES
    /\ ledger_users = ROOMIES
    /\ balances[LastBill.payer] - prev_balances[LastBill.payer] = 200 * Scale
    /\ \A u \in ROOMIES \ {LastBill.payer} : balances[u] - prev_balances[u] = 0 - 100 * Scale

\* C17: a settlement bill (the one who owes x pays x to the one who is owed x) brings
\* both balances to 0 and leaves every other balance as it was
C17_SettlementNetsOut ==
    \A D, C \in ledger_users :
        (/\ bills_list # <<>>
         /\ D # C
         /\ LastBill.payer = D
         /\ LastBill.debtors = {C}
         /\ LastBill.amount > 0
         /\ prev_balances[D] = 0 - LastBill.amount * Scale
         /\ prev_balances[C] = LastBill.amount * Scale)
        => /\ balances[D] = 0
           /\ balances[C] = 0
           /\ \A u \in ledger_users \ {D, C} : balances[u] = prev_balances[u]

\* C17 witness: a debt of a positive amount stood between two participants and the
\* last bill of the list is its settlement
C17_Witness ==
    /\ Len(bills_list) > 1
    /\ LastBill.amount > 0
    /\ \E C \in ledger_users \ {LastBill.payer} :
          /\ LastBill.debtors = {C}
          /\ prev_balances[LastBill.payer] = 0 - LastBill.amount * Scale
          /\ prev_balances[C] = LastBill.amount * Scale
          /\ balances[C] = 0
    /\ balances[LastBill.payer] = 0

\* ------------------------------------------------------------ properties of the context filter
Collections == {"tasks", "bills", "shopping", "furniture"}

\* the k-th smallest position of a set of positions
KthOf(S, k) == CHOOSE i \in S : Cardinality({j \in S : j <= i}) = k

\* C12: get_context_data(key) is the sequence of exactly the entities of data[key]
\* whose context is the active one, in the order they have in data[key]; it is a
\* function of the document and the active context alone
C12_FilterKeepsContextInOrder ==
    \A key \in Collections :
        LET S == {i \in 1..Len(data[key]) : data[key][i].context = context_id}
            r == get_context_data(key)
        IN /\ Len(r) = Cardinality(S)
           /\ \A k \in 1..Len(r) : r[k] = data[key][KthOf(S, k)]

\* C12 witness: the furniture list holds an item of each context, the one of the
\* other context first, and the filter returns the second one alone
C12_Witness ==
    /\ Len(data.furniture) = 2
    /\ data.furniture[1].context # context_id
    /\ data.furniture[2].context = context_id
    /\ get_context_data("furniture") = <<data.furniture[2]>>

\* ------------------------------------------------------------ properties of the checkout
CartSum == SumOver(shopping_cart, DOMAIN shopping_cart)

\* C1 (as claimed): a checkout submitted with no debtor selected changes nothing: no
\* bill is appended, no item changes, the cart is kept and nothing is saved
C1_EmptyDebtorsRejected ==
    [][(last'.op = "checkout" /\ last'.debtors = {})
        => (data' = data /\ shopping_cart' = shopping_cart /\ stored' = stored)]_vars

\* C4: a checkout with debtors appends exactly one bill (amount = sum of the cart's
\* prices, category Supermercado, the payer and debtors given, the active context),
\* leaves the earlier bills as they were and empties the cart
C4_CheckoutAppendsOneBill ==
    [][(last'.op = "checkout" /\ last'.debtors # {})
        => /\ data'.bills = Append(data.bills,
                  [amount |-> CartSum, category |-> "Supermercado", payer |-> last'.payer,
                   debtors |-> last'.debtors, context |-> context_id])
           /\ CartSum > 0
           /\ last'.payer \in current_users
           /\ shopping_cart' = EmptyCart]_vars

\* C4 witness: a cart of two priced entries was checked out with debtors
C4_Witness ==
    /\ last.op = "checkout"
    /\ last.debtors # {}
    /\ Cardinality(last.names) = 2
    /\ shopping_cart = EmptyCart
    /\ data.bills[Len(data.bills)].amount = 100
    /\ data.bills[Len(data.bills)].category = "Supermercado"

\* C5: a checkout sets to have exactly the items whose name is in the cart and whose
\* context is the active one; every other item keeps its status, none is added or removed
C5_CheckoutFlipsActiveContextOnly ==
    [][last'.op = "checkout"
        => /\ Len(data'.shopping) = Len(data.shopping)
           /\ \A i \in 1..Len(data.shopping) :
                data'.shopping[i] =
                    IF data.shopping[i].name \in DOMAIN shopping_cart
                       /\ data.shopping[i].context = context_id
                    THEN [data.shopping[i] EXCEPT !.status = "have"]
                    ELSE data.shopping[i]]_vars

\* C5 witness: after a checkout an item of the cart is have in the active context while
\* the item of the same name in the other context is still to buy
C5_Witness ==
    /\ last.op = "checkout"
    /\ \E i, j \in 1..Len(data.shopping) :
        /\ data.shopping[i].name \in last.names
        /\ data.shopping[i].context = context_id
        /\ data.shopping[i].status = "have"
        /\ data.shopping[j].name = data.shopping[i].name
        /\ data.shopping[j].context # context_id
        /\ data.shopping[j].status = "buy"

\* C6: no checkout step starts from a cart whose total is 0 (empty, or all prices 0)
C6_NoCheckoutAtZeroTotal ==
    [][CartSum <= 0 => (last'.op # "checkout" /\ data'.bills = data.bills)]_vars

\* C6 witness: in shopping mode, with the cart holding an entry, the total is 0
C6_Witness ==
    /\ mode = "Lista de Compras"
    /\ shopping_mode
    /\ shopping_cart # EmptyCart
    /\ CartSum = 0
    /\ Len(data.bills) < MaxBills

C8_CartSurvivesModeToggle ==
    [][/\ (shopping_mode' # shopping_mode \/ last'.op = "toggle_shopping_mode")
            => shopping_cart' = shopping_cart
       /\ (shopping_cart # EmptyCart /\ shopping_cart' = EmptyCart)
            => last'.op \in {"checkout", "remove_from_cart"}]_vars

\* C8 witness: back in planning mode after a toggle, the cart still holds a priced entry
C8_Witness ==
    /\ last.op = "toggle_shopping_mode"
    /\ ~shopping_mode
    /\ \E n \in DOMAIN shopping_cart : shopping_cart[n] > 0

\* ------------------------------------------------------------ properties of the shopping list
\* no two items of the list have both the same name and the same context
UniqueNames(shopping) ==
    \A i, j \in 1..Len(shopping) :
        (shopping[i].name = shopping[j].name /\ shopping[i].context = shopping[j].context)
            => i = j

\* C13: the (name, context) pairs of the shopping items stay pairwise distinct; a name
\* entered while an item of the active context has it (in either status) changes
\* nothing, a name no item of the active context has is appended as a to-buy item of
\* the active context, whether or not the other context has an item of that name
C13_NamesUniquePerContext ==
    [][/\ UniqueNames(data.shopping) => UniqueNames(data'.shopping)
       /\ (last'.op = "add_item" /\ last'.name # "")
            => IF \E i \in 1..Len(data.shopping) :
                     /\ data.shopping[i].name = last'.name
                     /\ data.shopping[i].context = context_id
               THEN data' = data /\ stored' = stored
               ELSE data'.shopping =
                        Append(data.shopping, [name |-> last'.name, status |-> "buy",
                                               context |-> context_id])]_vars

\* C13 witness: a name was entered that the other context's item had already, and
\* the two items of that name stand side by side, one per context
C13_Witness ==
    /\ last.op = "add_item"
    /\ Len(data.shopping) = 2
    /\ data.shopping[1].name = last.name
    /\ data.shopping[2].name = last.name
    /\ data.shopping[1].context # context_id
    /\ data.shopping[2].context = context_id

\* C15 (as claimed): switching the cat-mode toggle leaves the document as it is and
\* saves nothing
C15_ToggleLeavesDocument ==
    [][last'.op = "toggle_cat_mode" => (data' = data /\ stored' = stored)]_vars

\* C18 (as claimed): when a checkout runs, every name in the cart is the name of a
\* to-buy item of the active context, so the bill amount is the sum of the prices of
\* the items the checkout sets to have
C18_CartNamesAreToBuyItems ==
    [][last'.op = "checkout"
        => \A n \in DOMAIN shopping_cart :
              \E i \in to_buy :
                  /\ data.shopping[i].name = n
                  /\ data'.shopping[i].status = "have"]_vars

C9_LeavingCancelsPending == (mode # "Muebles") => (temp_furn_buy = {})

\* C19 (as claimed): the bill a furniture confirm appends has the context of the
\* furniture item the confirm marks bought
C19_BillHasItemContext ==
    [][last'.op = "confirm_purchase"
        => data'.bills[Len(data'.bills)].context = data.furniture[last'.idx].context]_vars

\* ------------------------------------------------------------ properties of persistence
\* C14: a handler whose save fails keeps its mutation in the session's document and
\* leaves the stored document as it was; whenever the stored document changes it
\* becomes the whole document of the session, so the next save that works stores
\* the mutations of the failed saves with its own
C14_FailedSaveRollsNothingBack ==
    [][/\ ~last'.saved => (data' # data /\ stored' = stored)
       /\ stored' # stored => stored' = data'
       /\ (last'.saved /\ data' # data) => stored' = data']_vars

\* C14 witness: the save of a handler failed; the session's document holds an entity
\* the stored document does not
C14_Witness ==
    /\ ~last.saved
    /\ stored # data
    /\ \E key \in Collections : Len(data[key]) > Len(stored[key])

\* ------------------------------------------------------------ properties of the bills
\* C20: the payer and every debtor of every bill of the document belong to the
\* participants of the bill's context, whichever of the three forms created the bill
C20_BillParticipantsInGroup ==
    \A i \in 1..Len(data.bills) :
        /\ data.bills[i].payer \in GroupOf(data.bills[i].context)
        /\ data.bills[i].debtors \subseteq GroupOf(data.bills[i].context)

\* C20 witness: a bill of the cat context, split among its whole group, was created
\* after the context had been switched
C20_Witness ==
    /\ last.op \in {"add_bill", "checkout", "confirm_purchase"}
    /\ data.bills # <<>>
    /\ data.bills[Len(data.bills)].context = "cat"
    /\ data.bills[Len(data.bills)].debtors = CATS_PARENTS

\* ------------------------------------------------------------ properties of two sessions
\* C16: a save writes the saving session's whole document over the stored one: the
\* stored document after a save is that session's document, with no entity of the
\* other session merged in, so what the other session saved in between is lost
C16_LastWriterWins ==
    [][stored' # stored
        => \/ data' # data /\ stored' = data'
           \/ peer_data' # peer_data /\ stored' = peer_data']_vars

\* C16 witness: both sessions loaded the empty sheet, the second one saved a bill,
\* then this session saved its own bill: the stored document is this session's and
\* the second session's bill is not in it
C16_Witness ==
    /\ last.op = "add_bill"
    /\ stored = data
    /\ peer_data.bills # <<>>
    /\ \A i \in 1..Len(stored.bills) : stored.bills[i] # peer_data.bills[1]

====
